---- MODULE Spec2Model ----
(***************************************************************************)
(* Model of concat_go.py: the RateEstimator (sliding window of size/time   *)
(* samples), the curses display loop (CursesUI), the launch of the ffmpeg  *)
(* child (merge_vids) and the try/except/finally of main() that supervises *)
(* it.                                                                     *)
(*                                                                         *)
(* Five specifications are defined over the same variables:                *)
(*   Spec      one run of main(), with the child process and the user's    *)
(*             Ctrl+C as concurrent actions;                               *)
(*   FairSpec  Spec with weak fairness on the steps of main();             *)
(*   SpecEst   a RateEstimator object driven by arbitrary add_data and     *)
(*             new_estimate calls;                                         *)
(*   SpecEx    a RateEstimator fed with byte counts of the order of 10^8;  *)
(*   SpecBar   calls of draw_progress(percent, ticks).                     *)
(*                                                                         *)
(* Abstractions: byte counts and timestamps are naturals; the estimate is  *)
(* computed in exact rational arithmetic; the double-precision evaluation  *)
(* of (percent / 100) * ticks in draw_progress is reproduced exactly for   *)
(* integer percents (FloatFloor); datetime.now() is a clock that never     *)
(* goes backwards; exit codes of the child are "0" and "1" (any non-zero   *)
(* code).                                                                  *)
(***************************************************************************)
EXTENDS Integers, Sequences, FiniteSets, TLC

VARIABLES
    pc,             \* position of main()
    exc,            \* exception propagating out of main(), "none" if none
    exit_status,    \* exit status of the interpreter, "none" while running
    rename,         \* args.rename
    proc,           \* main()'s local proc: "None" or "Popen"
    tfile,          \* main()'s local tfile: "unbound" or "bound"
    returncode,     \* proc.returncode: "None", "0", "1" or "kb"
    child,          \* the ffmpeg process: "none", "running", "exited", "killed"
    child_rc,       \* status the child exited with: "None", "0", "1"
    manifest,       \* the NamedTemporaryFile of merge_vids exists on disk
    out_exists,     \* out_file exists on disk
    out_size,       \* size of out_file in bytes
    intAt,          \* pc at which KeyboardInterrupt was raised, "none" if never
    events,         \* history of the observable operations of the run
    expected_bytes, \* CursesUI.expected_bytes = RateEstimator.expected_size
    window,         \* RateEstimator.window
    data,           \* RateEstimator.data: sequence of <<size, time>>
    clock,          \* datetime.datetime.now()
    msg,            \* what check_file last rendered
    added,          \* every sample ever passed through add_data, in order
    last_call,      \* window and result of the last new_estimate call
    drawn           \* arguments and result of the last draw_progress call

vars == <<pc, exc, exit_status, rename, proc, tfile, returncode, child,
          child_rc, manifest, out_exists, out_size, intAt, events,
          expected_bytes, window, data, clock, msg, added, last_call, drawn>>

mainVars == <<exc, exit_status, rename, proc, tfile, returncode, manifest, intAt>>
childVars == <<child, child_rc, out_exists, out_size>>
estVars == <<window, data, clock, msg, added, last_call, drawn>>

(***************************************************************************)
(* Bounds of the model.                                                    *)
(***************************************************************************)
MaxSize == 2        \* largest byte count a sample or the output file takes
MaxExpected == 3    \* largest expected_size
MaxDt == 1          \* largest clock advance between two add_data calls
MaxAdds == 3        \* add_data calls in one behaviour of SpecEst
MaxWindow == 3      \* largest window capacity configured in SpecEst
MaxTicks == 2       \* iterations of the display loop while the child runs
MaxExAdds == 3      \* add_data calls in one behaviour of SpecEx

(***************************************************************************)
(* Program constants.                                                      *)
(***************************************************************************)
DefaultWindow == 7
DefaultTicks == 50

Sizes == 0..MaxSize
ExpectedValues == 0..MaxExpected
ExitCodes == {"0", "1"}

Max(a, b) == IF a >= b THEN a ELSE b
Abs(a) == IF a < 0 THEN 0 - a ELSE a

RECURSIVE GCD(_, _)
GCD(a, b) == IF b = 0 THEN a ELSE GCD(b, a % b)

Count(s, e) == Cardinality({i \in 1..Len(s) : s[i] = e})
IndexOf(s, e) == CHOOSE i \in 1..Len(s) : s[i] = e

(***************************************************************************)
(* RateEstimator                                                           *)
(***************************************************************************)

\* Python slice s[-n:]. For n = 0 this is s[0:], the whole list; for n < 0
\* it is s[|n|:].
SliceLast(s, n) ==
    LET len == Len(s)
        start == IF n > 0 THEN Max(len - n, 0)
                 ELSE IF (0 - n) < len THEN 0 - n ELSE len
    IN  SubSeq(s, start + 1, len)

\* add_data keeping data[:window], the oldest samples, instead of the newest
AddData_KeepOldest(d, w, new_size, now) ==
    LET a == Append(d, <<new_size, now>>)
    IN  SubSeq(a, 1, IF w < Len(a) THEN Max(w, 0) ELSE Len(a))

\* add_data: append (new_size, now), keep data[-window:].
AddData(d, w, new_size, now) == SliceLast(Append(d, <<new_size, now>>), w)

NA == [kind |-> "N/A", num |-> 0, den |-> 1]
IndexError == [kind |-> "IndexError", num |-> 0, den |-> 1]

\* a timedelta of num/den seconds, in lowest terms
TimeDelta(num, den) ==
    LET g == GCD(Abs(num), Abs(den))
    IN  [kind |-> "timedelta", num |-> num \div g, den |-> den \div g]

\* new_estimate measuring growth against the previous sample, data[-2],
\* instead of the oldest one
NewEstimate_Adjacent(d, expected_size) ==
    IF Len(d) = 0 THEN IndexError
    ELSE
    LET newest == d[Len(d)]
        oldest == d[Max(Len(d) - 1, 1)]
        size_delta == newest[1] - oldest[1]
        time_delta == newest[2] - oldest[2]
        size_left == expected_size - newest[1]
        positive == (size_left > 0 /\ size_delta > 0) \/ (size_left < 0 /\ size_delta < 0)
        g == GCD(Abs(size_left), Abs(size_delta))
    IN  IF size_delta = 0 THEN NA
        ELSE IF positive
             THEN TimeDelta((Abs(size_left) \div g) * time_delta, Abs(size_delta) \div g)
             ELSE TimeDelta(0, 1)

\* new_estimate without the max(0, ...) clamp
NewEstimate_NoClamp(d, expected_size) ==
    IF Len(d) = 0 THEN IndexError
    ELSE
    LET newest == d[Len(d)]
        oldest == d[1]
        size_delta == newest[1] - oldest[1]
        time_delta == newest[2] - oldest[2]
        size_left == expected_size - newest[1]
        sign == IF size_delta < 0 THEN 0 - 1 ELSE 1
    IN  IF size_delta = 0 THEN NA
        ELSE TimeDelta(sign * size_left * time_delta, Abs(size_delta))

\* new_estimate taking size_left from the oldest sample instead of the newest
NewEstimate_FromOldest(d, expected_size) ==
    IF Len(d) = 0 THEN IndexError
    ELSE
    LET newest == d[Len(d)]
        oldest == d[1]
        size_delta == newest[1] - oldest[1]
        time_delta == newest[2] - oldest[2]
        size_left == expected_size - oldest[1]
        positive == (size_left > 0 /\ size_delta > 0) \/ (size_left < 0 /\ size_delta < 0)
        g == GCD(Abs(size_left), Abs(size_delta))
    IN  IF size_delta = 0 THEN NA
        ELSE IF positive
             THEN TimeDelta((Abs(size_left) \div g) * time_delta, Abs(size_delta) \div g)
             ELSE TimeDelta(0, 1)

\* new_estimate without the multiplication by time_delta
NewEstimate_NoTime(d, expected_size) ==
    IF Len(d) = 0 THEN IndexError
    ELSE
    LET newest == d[Len(d)]
        oldest == d[1]
        size_delta == newest[1] - oldest[1]
        size_left == expected_size - newest[1]
        positive == (size_left > 0 /\ size_delta > 0) \/ (size_left < 0 /\ size_delta < 0)
    IN  IF size_delta = 0 THEN NA
        ELSE IF positive
             THEN TimeDelta(Abs(size_left), Abs(size_delta))
             ELSE TimeDelta(0, 1)

\* new_estimate: 'N/A', or timedelta(max(0, size_left / size_delta) * time_delta).
\* data[-1] on an empty list raises IndexError.
NewEstimate(d, expected_size) ==
    IF Len(d) = 0 THEN IndexError
    ELSE
    LET newest == d[Len(d)]
        oldest == d[1]
        size_delta == newest[1] - oldest[1]
        time_delta == newest[2] - oldest[2]
        size_left == expected_size - newest[1]
        positive == (size_left > 0 /\ size_delta > 0) \/ (size_left < 0 /\ size_delta < 0)
        g == GCD(Abs(size_left), Abs(size_delta))
    IN  IF size_delta = 0 THEN NA
        ELSE IF positive
             THEN TimeDelta((Abs(size_left) \div g) * time_delta, Abs(size_delta) \div g)
             ELSE TimeDelta(0, 1)

(***************************************************************************)
(* draw_progress                                                           *)
(*                                                                         *)
(* done = int(math.floor((percent / 100) * ticks)) is evaluated in IEEE    *)
(* doubles: percent / 100 is rounded to 53 bits, the product is rounded    *)
(* again, then floored. For an integer percent p the exact product is      *)
(* p * ticks / 100. When that is not an integer the two roundings cannot   *)
(* move it across an integer. When it is an integer k, the result is k - 1 *)
(* exactly when the quotient was rounded down and the product is nearer to *)
(* the double below k than to k:                                           *)
(*   2^52 <= p * 2^e / 100 < 2^53,  rho = p * 2^e mod 100  (rho < 50:      *)
(*   rounded down by rho / 100 units),  2^c < k <= 2^(c+1),  and           *)
(*   rho * ticks > 50 * 2^(e - 52 + c)  (a tie rounds to k, which is even).*)
(***************************************************************************)
RECURSIVE Pow2(_)
Pow2(n) == IF n <= 0 THEN 1 ELSE 2 * Pow2(n - 1)

RECURSIVE Pow2Mod100(_)
Pow2Mod100(n) ==
    IF n <= 0 THEN 1
    ELSE LET h == Pow2Mod100(n \div 2)
         IN  IF n % 2 = 0 THEN (h * h) % 100 ELSE (2 * h * h) % 100

\* least j >= from with p * 2^j >= 100, for 0 < p
RECURSIVE ScaleUp(_, _)
ScaleUp(p, j) == IF p * Pow2(j) >= 100 THEN j ELSE ScaleUp(p, j + 1)

\* least n >= from with p < 200 * 2^n
RECURSIVE ScaleDown(_, _)
ScaleDown(p, n) == IF p < 200 * Pow2(n) THEN n ELSE ScaleDown(p, n + 1)

\* e - 52 for the double nearest to p / 100
QuotientExponent(p) == IF p < 100 THEN ScaleUp(p, 0) ELSE 0 - ScaleDown(p, 0)

\* least c >= from with k <= 2^(c+1), for k >= 1
RECURSIVE Binade(_, _)
Binade(k, c) == IF Pow2(c + 1) >= k THEN c ELSE Binade(k, c + 1)

\* math.floor((p / 100) * ticks) in real arithmetic
ExactFloor(p, ticks) == (p * ticks) \div 100

\* int(math.floor((p / 100) * ticks)) in doubles, for an integer p >= 0
FloatFloor(p, ticks) ==
    IF (p * ticks) % 100 # 0 \/ p * ticks = 0
    THEN (p * ticks) \div 100
    ELSE
    LET k == (p * ticks) \div 100
        j == QuotientExponent(p)
        rho == ((p % 100) * Pow2Mod100(52 + j)) % 100
        c == IF k = 1 THEN 0 - 1 ELSE Binade(k, 0)
        s == j + c
        down == /\ 0 < rho
                /\ rho < 50
                /\ IF s >= 0 THEN rho * ticks > 50 * Pow2(s)
                             ELSE rho * ticks * Pow2(0 - s) > 50
    IN  IF down THEN k - 1 ELSE k

\* draw_progress(percent, ticks) with percent = pnum / pden: the number of
\* symbol cells and of blank cells between the brackets. A negative repeat
\* count of a Python string gives the empty string. A percent that is not an
\* integer is floored exactly (with ticks = 50 its product is never an
\* integer, so the roundings do not show).
DrawProgress(pnum, pden, ticks) ==
    LET done == IF pnum % pden = 0
                THEN FloatFloor(pnum \div pden, ticks)
                ELSE (pnum * ticks) \div (100 * pden)
        not_done == ticks - done
    IN  [filled |-> Max(done, 0), empty |-> Max(not_done, 0)]

NoMsg == [cur_bytes |-> 0, estimate |-> NA, bar |-> [filled |-> 0, empty |-> 0]]
NoCall == [called |-> FALSE, data |-> <<>>, result |-> NA]
NoDraw == [called |-> FALSE, percent |-> 0, ticks |-> 0,
           bar |-> [filled |-> 0, empty |-> 0]]

(***************************************************************************)
(* check_file: stat the output file (0 when missing), compute the percent  *)
(* (ZeroDivisionError when expected_bytes is 0, before the sample is       *)
(* added), add the sample, render the estimate and the bar.                *)
(***************************************************************************)
CurBytes == IF out_exists THEN out_size ELSE 0

CheckFileRaises == expected_bytes = 0

\* check_file calling add_data twice
CheckFile_Double ==
    LET cur_bytes == CurBytes
        d == AddData(AddData(data, window, cur_bytes, clock), window, cur_bytes, clock)
    IN  /\ data' = d
        /\ added' = added \o <<(<<cur_bytes, clock>>), (<<cur_bytes, clock>>)>>
        /\ msg' = [cur_bytes |-> cur_bytes,
                   estimate |-> NewEstimate(d, expected_bytes),
                   bar |-> DrawProgress(100 * cur_bytes, expected_bytes, DefaultTicks)]

CheckFile ==
    LET cur_bytes == CurBytes
        d == AddData(data, window, cur_bytes, clock)
    IN  /\ data' = d
        /\ added' = Append(added, <<cur_bytes, clock>>)
        /\ msg' = [cur_bytes |-> cur_bytes,
                   estimate |-> NewEstimate(d, expected_bytes),
                   bar |-> DrawProgress(100 * cur_bytes, expected_bytes, DefaultTicks)]

\* Popen.poll(): records the exit status once the child has exited.
Poll(rc) == IF child = "exited" THEN child_rc ELSE rc

\* Popen.kill(): SIGKILL ends a running child; no effect on one that exited.
Kill(c) == IF c = "running" THEN "killed" ELSE c

\* line 290 without the 'kb' marker in the list
PrintsLogPointer_NoKb(p, rc) == p # "None" /\ rc \notin {"0"}

\* line 290: the condition under which the log pointer is printed
PrintsLogPointer(p, rc) == p # "None" /\ rc \notin {"0", "kb"}

(***************************************************************************)
(* main()                                                                  *)
(***************************************************************************)
Init ==
    /\ pc = "main"
    /\ exc = "none"
    /\ exit_status = "none"
    /\ rename = FALSE
    /\ proc = "None"
    /\ tfile = "unbound"
    /\ returncode = "None"
    /\ child = "none"
    /\ child_rc = "None"
    /\ manifest = FALSE
    /\ out_exists = FALSE
    /\ out_size = 0
    /\ intAt = "none"
    /\ events = <<>>
    /\ expected_bytes = 0
    /\ window = DefaultWindow
    /\ data = <<>>
    /\ clock = 0
    /\ msg = NoMsg
    /\ added = <<>>
    /\ last_call = NoCall
    /\ drawn = NoDraw

\* lines 245-257: parse the arguments; --update rewrites the script and exits 0
ParseArgs ==
    /\ pc = "main"
    /\ \E update \in BOOLEAN, r \in BOOLEAN :
          /\ rename' = r
          /\ IF update
             THEN pc' = "done" /\ exit_status' = "0"
             ELSE pc' = "validate_paths" /\ exit_status' = exit_status
    /\ UNCHANGED <<exc, proc, tfile, returncode, manifest, intAt, events, expected_bytes>>
    /\ UNCHANGED childVars
    /\ UNCHANGED estVars

\* validate_paths: OSError (uncaught, exit status 1) when there are no inputs,
\* an input is missing or not an mp4, the output path is not a directory or
\* the test write fails; the test file is removed again.
ValidatePaths ==
    /\ pc = "validate_paths"
    /\ \E inputs \in {"none", "bad", "ok"}, isdir \in BOOLEAN, writable \in BOOLEAN :
          IF inputs = "ok" /\ isdir /\ writable
          THEN /\ pc' = "total_files_size"
               /\ events' = Append(events, "validate_ok")
               /\ UNCHANGED <<exc, exit_status>>
          ELSE /\ pc' = "done"
               /\ events' = Append(events, "validate_err")
               /\ exc' = "OSError"
               /\ exit_status' = "1"
    /\ UNCHANGED <<rename, proc, tfile, returncode, manifest, intAt, expected_bytes>>
    /\ UNCHANGED childVars
    /\ UNCHANGED estVars

\* line 260: expected_bytes = total_files_size(vids)
TotalFilesSize ==
    /\ pc = "total_files_size"
    /\ expected_bytes' \in ExpectedValues
    /\ pc' = "input"
    /\ UNCHANGED <<events>>
    /\ UNCHANGED mainVars
    /\ UNCHANGED childVars
    /\ UNCHANGED estVars

\* answers to the prompt: empty, y..., Y..., anything else
Responses == {"", "y", "Y", "n"}

\* line 263 with 'resp and' in place of 'not resp or': an empty answer goes on
Aborts_EmptyGoesOn(resp) == resp # "" /\ resp \notin {"y", "Y"}

\* line 263: not resp or resp.lower()[0] != 'y'
Aborts(resp) == resp = "" \/ resp \notin {"y", "Y"}

\* lines 262-265: the confirmation prompt; anything but y... exits 1
Confirm ==
    /\ pc = "input"
    /\ \E resp \in Responses :
          /\ events' = Append(events, IF resp \in {"y", "Y"} THEN "confirm_yes"
                                       ELSE IF resp = "" THEN "confirm_empty"
                                       ELSE "confirm_no")
          /\ IF Aborts(resp)
             THEN pc' = "done" /\ exit_status' = "1"
             ELSE pc' = (IF rename THEN "rename" ELSE "try") /\ exit_status' = exit_status
    /\ UNCHANGED <<exc, rename, proc, tfile, returncode, manifest, intAt, expected_bytes>>
    /\ UNCHANGED childVars
    /\ UNCHANGED estVars

\* lines 267-274: rename-only mode, returns without merging
Rename ==
    /\ pc = "rename"
    /\ pc' = "done"
    /\ exit_status' = "0"
    /\ events' = Append(events, "rename")
    /\ UNCHANGED <<exc, rename, proc, tfile, returncode, manifest, intAt, expected_bytes>>
    /\ UNCHANGED childVars
    /\ UNCHANGED estVars

\* line 278: proc = None
TryEnter ==
    /\ pc = "try"
    /\ proc' = "None"
    /\ pc' = "merge_vids"
    /\ UNCHANGED <<exc, exit_status, rename, tfile, returncode, manifest, intAt, events, expected_bytes>>
    /\ UNCHANGED childVars
    /\ UNCHANGED estVars

\* lines 168-171: the manifest is created (delete=False) and written
MergeVidsManifest ==
    /\ pc = "merge_vids"
    /\ manifest' = TRUE
    /\ events' = Append(events, "mk_man")
    /\ pc' = "Popen"
    /\ UNCHANGED <<exc, exit_status, rename, proc, tfile, returncode, intAt, expected_bytes>>
    /\ UNCHANGED childVars
    /\ UNCHANGED estVars

\* lines 173-176: open the log and start ffmpeg; either may raise OSError
\* (ffmpeg not installed, log not writable), which leaves the try block.
MergeVidsPopen ==
    /\ pc = "Popen"
    /\ \E started \in BOOLEAN :
          IF started
          THEN /\ child' = "running"
               /\ events' = Append(events, "launch")
               /\ pc' = "merge_vids_return"
               /\ exc' = exc
          ELSE /\ exc' = "OSError"
               /\ pc' = "finally"
               /\ UNCHANGED <<child, events>>
    /\ UNCHANGED <<exit_status, rename, proc, tfile, returncode, manifest, intAt, expected_bytes>>
    /\ UNCHANGED <<child_rc, out_exists, out_size>>
    /\ UNCHANGED estVars

\* lines 177-179 and 279: poll once, return; main binds proc and tfile
MergeVidsReturn ==
    /\ pc = "merge_vids_return"
    /\ returncode' = Poll(returncode)
    /\ proc' = "Popen"
    /\ tfile' = "bound"
    /\ pc' = "CursesUI"
    /\ UNCHANGED <<exc, exit_status, rename, manifest, intAt, events, expected_bytes>>
    /\ UNCHANGED childVars
    /\ UNCHANGED estVars

\* line 280, lines 91-97: build the CursesUI and its estimator, enter
\* curses.wrapper; initialising curses may raise curses.error
CursesUIInit ==
    /\ pc = "CursesUI"
    /\ data' = <<>>
    /\ window' = DefaultWindow
    /\ \E curses_ok \in BOOLEAN :
          IF curses_ok
          THEN pc' = "call" /\ exc' = exc
          ELSE pc' = "finally" /\ exc' = "curses.error"
    /\ UNCHANGED <<exit_status, rename, proc, tfile, returncode, manifest, intAt, events, expected_bytes>>
    /\ UNCHANGED childVars
    /\ UNCHANGED <<clock, msg, added, last_call, drawn>>

\* lines 103-104: the first check_file, before any poll of the loop
CallFirst ==
    /\ pc = "call"
    /\ IF CheckFileRaises
       THEN /\ exc' = "ZeroDivisionError"
            /\ pc' = "finally"
            /\ UNCHANGED <<data, added, msg, events>>
       ELSE /\ CheckFile
            /\ events' = Append(events, "check_file")
            /\ pc' = "poll"
            /\ exc' = exc
    /\ UNCHANGED <<exit_status, rename, proc, tfile, returncode, manifest, intAt, expected_bytes>>
    /\ UNCHANGED childVars
    /\ UNCHANGED <<window, clock, last_call, drawn>>

\* lines 106 and 113: self.proc.poll()
PollChild ==
    /\ pc = "poll"
    /\ returncode' = Poll(returncode)
    /\ events' = Append(events, "poll")
    /\ pc' = "while"
    /\ UNCHANGED <<exc, exit_status, rename, proc, tfile, manifest, intAt, expected_bytes>>
    /\ UNCHANGED childVars
    /\ UNCHANGED estVars

\* the loop test written 'while not self.proc.returncode': status 0 is falsy
While_Truthy ==
    /\ pc = "while"
    /\ pc' = (IF returncode \in {"None", "0"} THEN "tick" ELSE "finally")
    /\ UNCHANGED <<events, expected_bytes>>
    /\ UNCHANGED mainVars
    /\ UNCHANGED childVars
    /\ UNCHANGED estVars

\* line 107: the loop test; on exit the wrapper returns and the try block ends
While ==
    /\ pc = "while"
    /\ pc' = (IF returncode = "None" THEN "tick" ELSE "finally")
    /\ UNCHANGED <<events, expected_bytes>>
    /\ UNCHANGED mainVars
    /\ UNCHANGED childVars
    /\ UNCHANGED estVars

\* lines 108-110: one tick of the loop. The model follows at most MaxTicks
\* ticks of a child that is still running.
Tick ==
    /\ pc = "tick"
    /\ Count(events, "tick") < MaxTicks \/ child # "running"
    /\ IF CheckFileRaises
       THEN /\ exc' = "ZeroDivisionError"
            /\ pc' = "finally"
            /\ UNCHANGED <<data, added, msg, events>>
       ELSE /\ CheckFile
            /\ events' = events \o <<"tick", "check_file">>
            /\ pc' = "sleep"
            /\ exc' = exc
    /\ UNCHANGED <<exit_status, rename, proc, tfile, returncode, manifest, intAt, expected_bytes>>
    /\ UNCHANGED childVars
    /\ UNCHANGED <<window, clock, last_call, drawn>>

\* line 112: time.sleep(self.time_sleep)
Sleep ==
    /\ pc = "sleep"
    /\ clock' = clock + 1
    /\ pc' = "poll"
    /\ UNCHANGED <<events, expected_bytes>>
    /\ UNCHANGED mainVars
    /\ UNCHANGED childVars
    /\ UNCHANGED <<window, data, msg, added, last_call, drawn>>

\* positions inside the try block of main()
TryPcs == {"merge_vids", "Popen", "merge_vids_return", "CursesUI",
           "call", "poll", "while", "tick", "sleep"}
\* positions inside CursesUI.__call__
LoopPcs == {"call", "poll", "while", "tick", "sleep"}

\* Ctrl+C: KeyboardInterrupt is raised at the current position of the try
\* block and control goes to the except clause
KeyboardInterrupt ==
    /\ pc \in TryPcs
    /\ intAt = "none"
    /\ intAt' = pc
    /\ events' = Append(events, "KeyboardInterrupt")
    /\ pc' = "except"
    /\ UNCHANGED <<exc, exit_status, rename, proc, tfile, returncode, manifest, expected_bytes>>
    /\ UNCHANGED childVars
    /\ UNCHANGED estVars

\* the except clause without its os.remove(out_file)
ExceptKeyboardInterrupt_NoRemove ==
    /\ pc = "except"
    /\ IF proc = "None"
       THEN /\ exc' = "AttributeError"
            /\ UNCHANGED <<child, returncode, events>>
       ELSE /\ child' = Kill(child)
            /\ returncode' = "kb"
            /\ events' = Append(events, "kill")
            /\ exc' = exc
    /\ pc' = "finally"
    /\ UNCHANGED <<exit_status, rename, proc, tfile, manifest, intAt, expected_bytes,
                   child_rc, out_exists, out_size>>
    /\ UNCHANGED estVars

\* lines 281-288: kill the child, mark the run 'kb', delete the output file.
\* proc.kill() on None raises AttributeError and skips the rest.
ExceptKeyboardInterrupt ==
    /\ pc = "except"
    /\ IF proc = "None"
       THEN /\ exc' = "AttributeError"
            /\ UNCHANGED <<child, returncode, out_exists, out_size, events>>
       ELSE /\ child' = Kill(child)
            /\ returncode' = "kb"
            /\ out_exists' = FALSE
            /\ out_size' = 0
            /\ events' = events \o <<"kill", "rm_out">>
            /\ exc' = exc
    /\ pc' = "finally"
    /\ UNCHANGED <<exit_status, rename, proc, tfile, manifest, intAt, expected_bytes, child_rc>>
    /\ UNCHANGED estVars

\* lines 289-295: print the log pointer, delete the manifest. An unbound
\* tfile raises UnboundLocalError, which os.remove's except OSError does not
\* catch. main() then returns (exit status 0) or the pending exception ends
\* the interpreter with status 1.
Finally ==
    /\ pc = "finally"
    /\ LET printed == IF PrintsLogPointer(proc, returncode) THEN <<"print_log">> ELSE <<>>
       IN  IF tfile = "unbound"
           THEN /\ exc' = "UnboundLocalError"
                /\ manifest' = manifest
                /\ events' = events \o printed
                /\ exit_status' = "1"
           ELSE /\ exc' = exc
                /\ manifest' = FALSE
                /\ events' = events \o printed \o <<"rm_man">>
                /\ exit_status' = (IF exc = "none" THEN "0" ELSE "1")
    /\ pc' = "done"
    /\ UNCHANGED <<rename, proc, tfile, returncode, intAt, expected_bytes>>
    /\ UNCHANGED childVars
    /\ UNCHANGED estVars

(***************************************************************************)
(* The ffmpeg child: creates the output file, grows it, exits.             *)
(***************************************************************************)
ChildCreate ==
    /\ child = "running"
    /\ ~out_exists
    /\ out_exists' = TRUE
    /\ out_size' = 0
    /\ UNCHANGED <<pc, events, expected_bytes, child, child_rc>>
    /\ UNCHANGED mainVars
    /\ UNCHANGED estVars

ChildWrite ==
    /\ child = "running"
    /\ out_exists
    /\ out_size < MaxSize
    /\ out_size' = out_size + 1
    /\ UNCHANGED <<pc, events, expected_bytes, child, child_rc, out_exists>>
    /\ UNCHANGED mainVars
    /\ UNCHANGED estVars

\* a successful ffmpeg has written its output file
ChildExit ==
    /\ child = "running"
    /\ \E rc \in ExitCodes :
          /\ rc = "0" => out_exists
          /\ child_rc' = rc
    /\ child' = "exited"
    /\ UNCHANGED <<pc, events, expected_bytes, out_exists, out_size>>
    /\ UNCHANGED mainVars
    /\ UNCHANGED estVars

Next ==
    \/ ParseArgs
    \/ ValidatePaths
    \/ TotalFilesSize
    \/ Confirm
    \/ Rename
    \/ TryEnter
    \/ MergeVidsManifest
    \/ MergeVidsPopen
    \/ MergeVidsReturn
    \/ CursesUIInit
    \/ CallFirst
    \/ PollChild
    \/ While
    \/ Tick
    \/ Sleep
    \/ KeyboardInterrupt
    \/ ExceptKeyboardInterrupt
    \/ Finally
    \/ ChildCreate
    \/ ChildWrite
    \/ ChildExit

Spec == Init /\ [][Next]_vars

(***************************************************************************)
(* A RateEstimator object under arbitrary calls.                           *)
(***************************************************************************)
InitEst ==
    /\ pc = "RateEstimator"
    /\ exc = "none"
    /\ exit_status = "none"
    /\ rename = FALSE
    /\ proc = "None"
    /\ tfile = "unbound"
    /\ returncode = "None"
    /\ child = "none"
    /\ child_rc = "None"
    /\ manifest = FALSE
    /\ out_exists = FALSE
    /\ out_size = 0
    /\ intAt = "none"
    /\ events = <<>>
    /\ expected_bytes \in ExpectedValues
    /\ window \in 0..MaxWindow
    /\ data = <<>>
    /\ clock = 0
    /\ msg = NoMsg
    /\ added = <<>>
    /\ last_call = NoCall
    /\ drawn = NoDraw

\* add_data(new_size) at the current time
EstAddData ==
    /\ pc = "RateEstimator"
    /\ Len(added) < MaxAdds
    /\ \E new_size \in Sizes, dt \in 0..MaxDt :
          /\ clock' = clock + dt
          /\ data' = AddData(data, window, new_size, clock + dt)
          /\ added' = Append(added, <<new_size, clock + dt>>)
    /\ UNCHANGED <<pc, events, expected_bytes, window, msg, last_call, drawn>>
    /\ UNCHANGED mainVars
    /\ UNCHANGED childVars

\* new_estimate() that consumes the window it has read
EstNewEstimate_Clears ==
    /\ pc = "RateEstimator"
    /\ last_call' = [called |-> TRUE, data |-> data,
                     result |-> NewEstimate(data, expected_bytes)]
    /\ data' = <<>>
    /\ UNCHANGED <<pc, events, expected_bytes, window, clock, msg, added, drawn>>
    /\ UNCHANGED mainVars
    /\ UNCHANGED childVars

\* new_estimate() on the current window
EstNewEstimate ==
    /\ pc = "RateEstimator"
    /\ last_call' = [called |-> TRUE, data |-> data,
                     result |-> NewEstimate(data, expected_bytes)]
    /\ UNCHANGED <<pc, events, expected_bytes, window, data, clock, msg, added, drawn>>
    /\ UNCHANGED mainVars
    /\ UNCHANGED childVars

NextEst ==
    \/ EstAddData
    \/ EstNewEstimate

SpecEst == InitEst /\ [][NextEst]_vars

(***************************************************************************)
(* main() keeps running: the interpreter executes its next statement.      *)
(***************************************************************************)
MainStep ==
    \/ ParseArgs
    \/ ValidatePaths
    \/ TotalFilesSize
    \/ Confirm
    \/ Rename
    \/ TryEnter
    \/ MergeVidsManifest
    \/ MergeVidsPopen
    \/ MergeVidsReturn
    \/ CursesUIInit
    \/ CallFirst
    \/ PollChild
    \/ While
    \/ Tick
    \/ Sleep
    \/ ExceptKeyboardInterrupt
    \/ Finally

FairSpec == Spec /\ WF_vars(MainStep)

\* everything of main() and of the child at rest
AtRest ==
    /\ exc = "none"
    /\ exit_status = "none"
    /\ rename = FALSE
    /\ proc = "None"
    /\ tfile = "unbound"
    /\ returncode = "None"
    /\ child = "none"
    /\ child_rc = "None"
    /\ manifest = FALSE
    /\ out_exists = FALSE
    /\ out_size = 0
    /\ intAt = "none"
    /\ events = <<>>

(***************************************************************************)
(* A RateEstimator with the default window, fed byte counts of the size of *)
(* video files at intervals of seconds.                                    *)
(***************************************************************************)
ExampleExpected == {200000000, 500000000, 1000000000}
ExampleSizes == {100000000, 200000000, 300000000}
ExampleDts == {0, 5, 10}

InitEx ==
    /\ pc = "RateEstimator"
    /\ AtRest
    /\ expected_bytes \in ExampleExpected
    /\ window = DefaultWindow
    /\ data = <<>>
    /\ clock = 0
    /\ msg = NoMsg
    /\ added = <<>>
    /\ last_call = NoCall
    /\ drawn = NoDraw

ExAddData ==
    /\ pc = "RateEstimator"
    /\ Len(added) < MaxExAdds
    /\ \E new_size \in ExampleSizes, dt \in ExampleDts :
          /\ clock' = clock + dt
          /\ data' = AddData(data, window, new_size, clock + dt)
          /\ added' = Append(added, <<new_size, clock + dt>>)
    /\ UNCHANGED <<pc, events, expected_bytes, window, msg, last_call, drawn>>
    /\ UNCHANGED mainVars
    /\ UNCHANGED childVars

NextEx ==
    \/ ExAddData
    \/ EstNewEstimate

SpecEx == InitEx /\ [][NextEx]_vars

(***************************************************************************)
(* draw_progress called with any integer percent and a few bar lengths.    *)
(***************************************************************************)
Percents == 0..100
TickValues == {0, 1, 2, 10, DefaultTicks, 90, 100}

InitBar ==
    /\ pc = "draw_progress"
    /\ AtRest
    /\ expected_bytes = 0
    /\ window = DefaultWindow
    /\ data = <<>>
    /\ clock = 0
    /\ msg = NoMsg
    /\ added = <<>>
    /\ last_call = NoCall
    /\ drawn = NoDraw

DrawBar ==
    /\ pc = "draw_progress"
    /\ \E percent \in Percents, ticks \in TickValues :
          drawn' = [called |-> TRUE, percent |-> percent, ticks |-> ticks,
                    bar |-> DrawProgress(percent, 1, ticks)]
    /\ UNCHANGED <<pc, events, expected_bytes, window, data, clock, msg, added, last_call>>
    /\ UNCHANGED mainVars
    /\ UNCHANGED childVars

NextBar == DrawBar

SpecBar == InitBar /\ [][NextBar]_vars

(***************************************************************************)
(* Properties                                                              *)
(***************************************************************************)
Done == pc = "done"
Printed == Count(events, "print_log")

\* C1: whenever main() has ended after merge_vids created the manifest file,
\* the manifest file no longer exists.
C1_ManifestRemoved ==
    (Done /\ Count(events, "mk_man") > 0) => ~manifest

\* C2: when the child exited with a non-zero status, the loop recorded it,
\* no interrupt occurred and nothing was raised, then at the end of main()
\* the output file and the manifest file are both gone.
C2_FailureCleanup ==
    (Done /\ child = "exited" /\ child_rc = "1" /\ returncode = "1"
          /\ intAt = "none" /\ exc = "none")
        => (~out_exists /\ ~manifest)

\* C3: in every run that rendered the display and in which the child exited
\* with status 0, the output file exists at the end of main() and the
\* manifest has been removed, whatever the interleaving with an interrupt.
C3_SuccessKeepsOutput ==
    (Done /\ Count(events, "check_file") >= 1 /\ child = "exited" /\ child_rc = "0")
        => (out_exists /\ ~manifest)

\* C4: after a KeyboardInterrupt raised while the display loop runs, control
\* never returns to the loop (no poll, tick or check_file follows the
\* interrupt), proc.kill() is called exactly once, then os.remove(out_file)
\* exactly once, then os.remove(tfile) exactly once, and when main() has
\* ended the child is not running and neither file exists.
C4_InterruptCleanup ==
    intAt \in LoopPcs =>
        /\ pc \in {"except", "finally", "done"}
        /\ \A i \in (IndexOf(events, "KeyboardInterrupt") + 1)..Len(events) :
              events[i] \notin {"poll", "tick", "check_file", "launch"}
        /\ pc \in {"finally", "done"} =>
              /\ Count(events, "kill") = 1
              /\ Count(events, "rm_out") = 1
              /\ IndexOf(events, "KeyboardInterrupt") < IndexOf(events, "kill")
              /\ IndexOf(events, "kill") < IndexOf(events, "rm_out")
              /\ returncode = "kb"
        /\ Done =>
              /\ Count(events, "rm_man") = 1
              /\ IndexOf(events, "rm_out") < IndexOf(events, "rm_man")
              /\ child # "running"
              /\ ~out_exists
              /\ ~manifest

\* an interrupt during the sleep of a tick killed the running child
C4_Witness ==
    /\ Done
    /\ intAt = "sleep"
    /\ child = "killed"
    /\ Count(events, "tick") >= 1

\* C5: main() ends with status 0 when the merge succeeded, and with a
\* non-zero status after a validation failure and after a merge failure (the
\* child exited non-zero).
C5_ExitStatus ==
    Done =>
        /\ (returncode = "0" /\ exc = "none") => exit_status = "0"
        /\ (exc = "OSError" /\ Count(events, "mk_man") = 0) => exit_status = "1"
        /\ returncode = "1" => exit_status # "0"

MostRecent(s, n) == SubSeq(s, Max(Len(s) - n, 0) + 1, Len(s))

WindowHolds(n) ==
    /\ Len(data) <= n
    /\ data = MostRecent(added, n)
    /\ \A i, j \in 1..Len(data) : i < j => data[i][2] <= data[j][2]

C8_FewSamples ==
    (last_call.called /\ Len(last_call.data) < 2) => last_call.result = NA

Oldest(d) == d[1]
Newest(d) == d[Len(d)]

\* C9: new_estimate on a window whose newest and oldest byte counts are equal
\* returns 'N/A', whatever the timestamps and expected_size.
C9_NoGrowth ==
    (/\ last_call.called
     /\ Len(last_call.data) >= 1
     /\ Newest(last_call.data)[1] = Oldest(last_call.data)[1])
        => last_call.result = NA

\* three samples, the middle one different, over a positive time span
C9_Witness ==
    /\ last_call.called
    /\ Len(last_call.data) >= 3
    /\ Newest(last_call.data)[1] = Oldest(last_call.data)[1]
    /\ last_call.data[Len(last_call.data) - 1][1] # Newest(last_call.data)[1]
    /\ Newest(last_call.data)[2] > Oldest(last_call.data)[2]
    /\ last_call.result = NA

C11_ZeroTimeDelta ==
    (/\ last_call.called
     /\ Len(last_call.data) >= 1
     /\ Newest(last_call.data)[2] = Oldest(last_call.data)[2]
     /\ Newest(last_call.data)[1] # Oldest(last_call.data)[1])
        => last_call.result = NA

\* the window of the example: expected 1,000,000,000 bytes, oldest sample
\* 100,000,000 bytes, newest sample 300,000,000 bytes taken 10 seconds later
ExampleWindow ==
    /\ last_call.called
    /\ expected_bytes = 1000000000
    /\ Len(last_call.data) >= 2
    /\ Oldest(last_call.data)[1] = 100000000
    /\ Newest(last_call.data)[1] = 300000000
    /\ Newest(last_call.data)[2] - Oldest(last_call.data)[2] = 10

\* C12 as stated: on the example window new_estimate returns 350 seconds.
C12_Example350 == ExampleWindow => last_call.result = TimeDelta(350, 1)

\* C12 amended: on the example window new_estimate returns 35 seconds.
C12_Example35 == ExampleWindow => last_call.result = TimeDelta(35, 1)

\* the example window with a third sample in between
C12_Witness ==
    /\ ExampleWindow
    /\ Len(last_call.data) = 3
    /\ last_call.result = TimeDelta(35, 1)

\* C13: the body of the display loop runs only after a poll that left
\* proc.returncode at None; once a poll has recorded the exit there is no
\* further tick; a loop that ends without exception or interrupt ends with
\* the child's exit status in proc.returncode; and (expected_bytes > 0, main()
\* keeps running) once the child has exited the loop is left, with that
\* status recorded unless an interrupt came first.
C13_LoopTerminates ==
    /\ [](/\ pc \in {"tick", "sleep"} => returncode = "None"
          /\ (pc \in {"finally", "done"} /\ proc = "Popen" /\ exc = "none" /\ intAt = "none")
                => (child = "exited" /\ returncode = child_rc))
    /\ [][returncode # "None" => Count(events', "tick") = Count(events, "tick")]_vars
    /\ (pc \in LoopPcs /\ child = "exited" /\ expected_bytes > 0)
          ~> (intAt # "none" \/ (pc \notin LoopPcs /\ returncode = child_rc))

\* the loop ticked, then a poll recorded status 0 and the loop ended
C13_Witness ==
    /\ pc = "finally"
    /\ exc = "none"
    /\ intAt = "none"
    /\ returncode = "0"
    /\ Count(events, "tick") >= 1

Launched ==
    \/ Count(events, "mk_man") > 0
    \/ Count(events, "launch") > 0
    \/ manifest
    \/ child # "none"

\* C14: merge_vids is entered and the child started only after validate_paths
\* returned and the prompt was answered y...; after a validation error, a
\* declined or empty answer, and in rename-only mode, merge_vids is never
\* called and no child exists.
C14_LaunchAfterValidation ==
    /\ Launched =>
          /\ Count(events, "validate_ok") = 1
          /\ Count(events, "confirm_yes") = 1
          /\ IndexOf(events, "validate_ok") < IndexOf(events, "confirm_yes")
          /\ IndexOf(events, "confirm_yes") < IndexOf(events, "mk_man")
          /\ ~rename
    /\ (\/ Count(events, "validate_err") > 0
        \/ Count(events, "confirm_no") > 0
        \/ Count(events, "confirm_empty") > 0
        \/ rename)
          => ~Launched

\* main() ended on an empty answer to the prompt, nothing was launched
C14_Witness ==
    /\ Done
    /\ Count(events, "validate_ok") = 1
    /\ Count(events, "confirm_empty") = 1
    /\ ~Launched

\* C15: draw_progress(percent, ticks) renders floor(percent / 100 * ticks)
\* filled cells followed by ticks minus that many empty cells.
C15_BarCells ==
    drawn.called =>
        /\ drawn.bar.filled = ExactFloor(drawn.percent, drawn.ticks)
        /\ drawn.bar.empty = drawn.ticks - ExactFloor(drawn.percent, drawn.ticks)

\* C16: whatever check_file rendered, the bar has exactly 50 cells.
C16_BarWidth ==
    Count(events, "check_file") > 0 => msg.bar.filled + msg.bar.empty = DefaultTicks

\* C17: for a window with positive growth over a positive time span, the
\* duration d returned by new_estimate satisfies
\* d * size_delta = max(0, expected_size - newest) * time_delta.
C17_Extrapolation ==
    (/\ last_call.called
     /\ Len(last_call.data) >= 1
     /\ Newest(last_call.data)[1] > Oldest(last_call.data)[1]
     /\ Newest(last_call.data)[2] > Oldest(last_call.data)[2])
        => LET size_delta == Newest(last_call.data)[1] - Oldest(last_call.data)[1]
               time_delta == Newest(last_call.data)[2] - Oldest(last_call.data)[2]
               size_remaining == Max(0, expected_bytes - Newest(last_call.data)[1])
           IN  /\ last_call.result.kind = "timedelta"
               /\ last_call.result.den > 0
               /\ last_call.result.num * size_delta
                     = last_call.result.den * size_remaining * time_delta

\* half a second left: 1 byte to go at 2 bytes per second
C17_Witness ==
    /\ last_call.called
    /\ Len(last_call.data) >= 2
    /\ Newest(last_call.data)[1] > Oldest(last_call.data)[1]
    /\ Newest(last_call.data)[2] > Oldest(last_call.data)[2]
    /\ expected_bytes > Newest(last_call.data)[1]
    /\ last_call.result = TimeDelta(1, 2)

C19_ChildStopped ==
    (Done /\ Count(events, "launch") > 0 /\ exc = "ZeroDivisionError")
        => child # "running"

\* C20: no step of a RateEstimator changes expected_size or window,
\* new_estimate leaves data unchanged, and add_data keeps the samples it
\* retains as they were and in their order.
C20_Frame ==
    [][/\ expected_bytes' = expected_bytes
       /\ window' = window
       /\ last_call' # last_call => data' = data
       /\ data' # data =>
             /\ Len(data') >= 1
             /\ \E k \in 1..(Len(data) + 1) :
                   SubSeq(data', 1, Len(data') - 1) = SubSeq(data, k, Len(data))]_vars

\* new_estimate was called on a window that had evicted, and left it as is
C20_Witness ==
    /\ pc = "RateEstimator"
    /\ last_call.called
    /\ window >= 1
    /\ Len(added) > Len(data)
    /\ Len(data) >= 1
    /\ last_call.data = data

====
